---- MODULE Spec2Model ----
(***************************************************************************)
(* PAYMENT-SHIELD: the transaction risk-scoring engine.                    *)
(*                                                                         *)
(*   FraudDetector        (fraud_detector.py)     batch scoring            *)
(*   TransactionAnalyzer  (transaction_analyzer.py) single-transaction     *)
(*                                                                         *)
(* Representation.                                                         *)
(*   - risk scores and score thresholds are held in hundredths             *)
(*     (0.25 is 25, 1.0 is 100); every contribution of the code is a       *)
(*     multiple of 0.05.                                                   *)
(*   - amounts are held in half-dollars (0.50 is 1, 15000 is 30000);       *)
(*     amount thresholds are held in dollars as in the settings dict.      *)
(*   - timestamps are seconds since Monday 2023-12-25 00:00:00.            *)
(*   - a text (location, merchant, category) is a sequence of characters.  *)
(*   - fraud_reasons is a sequence of tokens: a label or the separator.    *)
(***************************************************************************)
EXTENDS Integers, Sequences, FiniteSets, TLC

(***************************************************************************)
(* Bounds of the model.                                                    *)
(***************************************************************************)
\* largest number of pool transactions in the caller's collection
MaxTx == 3
\* number of filler transactions of the large collection
NFill == 11

(***************************************************************************)
(* State.                                                                  *)
(***************************************************************************)
VARIABLES
    settings,       \* FraudDetector.settings
    transactions,   \* the caller's transaction collection
    result,         \* what the last detect_fraud pass returned
    prevResult,     \* what the pass before returned, when no update came between
    passes,         \* completed passes, counted to 2
    updatedSince,   \* update_settings was called since the last pass
    lastUpdate,     \* <<settings before, argument>> of the last update_settings
    pc,             \* position of the pass in flight
    frame,          \* the data frame (df) of the pass, until _calculate_final_score
    seen,           \* the settings values the pass in flight has read, by key
    held,           \* the settings values the detector held during that pass
    single,         \* the last analyze_single_transaction call and its result
    advice,         \* the last _get_recommendation call and its result
    analysis_cache  \* TransactionAnalyzer.analysis_cache

vars == <<settings, transactions, result, prevResult, passes,
          updatedSince, lastUpdate, pc, frame, seen, held, single, advice,
          analysis_cache>>

passVars  == <<pc, seen>>

(***************************************************************************)
(* Text.                                                                   *)
(***************************************************************************)
UpperCase == <<"A","B","C","D","E","F","G","H","I","J","K","L","M",
               "N","O","P","Q","R","S","T","U","V","W","X","Y","Z">>
LowerCase == <<"a","b","c","d","e","f","g","h","i","j","k","l","m",
               "n","o","p","q","r","s","t","u","v","w","x","y","z">>

\* str.lower() on one character
LowerChar(c) ==
    IF \E i \in 1..26 : UpperCase[i] = c
    THEN LowerCase[CHOOSE i \in 1..26 : UpperCase[i] = c]
    ELSE c

\* str.lower()
Lower(s) == [i \in 1..Len(s) |-> LowerChar(s[i])]

\* keyword in text  (substring test; the empty keyword is in every text)
Contains(s, k) ==
    \E i \in 0..(Len(s) - Len(k)) : SubSeq(s, i + 1, i + Len(k)) = k

(***************************************************************************)
(* Time.                                                                   *)
(***************************************************************************)
SecPerMinute == 60
SecPerHour   == 3600
SecPerDay    == 86400

\* timestamp.hour
Hour(t) == (t \div SecPerHour) % 24
\* timestamp.dayofweek / weekday(): 0 = Monday ... 6 = Sunday
DayOfWeek(t) == (t \div SecPerDay) % 7
\* timestamp.dt.date
Date(t) == t \div SecPerDay
\* timestamp.dt.floor('H')
FloorHour(t) == t \div SecPerHour
\* timestamp.month, timestamp.day over the window 2023-12-25 .. 2024-01-31
Month(t) == IF Date(t) <= 6 THEN 12 ELSE 1
DayOfMonth(t) == IF Date(t) <= 6 THEN 25 + Date(t) ELSE Date(t) - 6

\* datetime.time value of the settings dict
TimeOfDay(h, m) == [hour |-> h, minute |-> m]

(***************************************************************************)
(* Wide arithmetic: a natural number as <<M, r>> standing for              *)
(* M * 10^6 + r, 0 <= r < 10^6.  The z-score tests compare squares that do *)
(* not fit the model checker's integers; the code computes them in double  *)
(* precision, which is exact at these magnitudes.                          *)
(***************************************************************************)
WBase == 1000 * 1000
Abs(x) == IF x < 0 THEN -x ELSE x
WSq(d) ==
    LET a  == Abs(d)
        h  == a \div 1000
        l  == a % 1000
        lo == 2000 * h * l + l * l
    IN  <<h * h + (lo \div WBase), lo % WBase>>
WScale(k, w) == <<k * w[1] + ((k * w[2]) \div WBase), (k * w[2]) % WBase>>
WPlus(v, w) == <<v[1] + w[1] + ((v[2] + w[2]) \div WBase), (v[2] + w[2]) % WBase>>
WGreater(v, w) == v[1] > w[1] \/ (v[1] = w[1] /\ v[2] > w[2])
WZero == <<0, 0>>

RECURSIVE SumSeq(_)
SumSeq(s) == IF s = <<>> THEN 0 ELSE Head(s) + SumSeq(Tail(s))

RECURSIVE WSumSq(_, _, _)
\* sum over the population of (n * x_i - S)^2
WSumSq(s, n, S) ==
    IF s = <<>> THEN WZero ELSE WPlus(WSq(n * Head(s) - S), WSumSq(Tail(s), n, S))

(***************************************************************************)
(* pandas statistics of an amount column `amts` (a sequence).              *)
(*   mean = S / n,  std (ddof = 1) = sqrt(sum (x_i - mean)^2 / (n - 1)).   *)
(* With d_i = n * x_i - S:  ((x - mean) / std)^2 = d_x^2 (n-1) / sum d_i^2 *)
(***************************************************************************)
\* Series.std() is NaN (fewer than two values)
StdIsNaN(amts) == Len(amts) < 2
\* Series.std() is exactly zero
StdIsZero(amts) ==
    /\ Len(amts) >= 2
    /\ WSumSq(amts, Len(amts), SumSeq(amts)) = WZero
\* abs((x - mean) / std) > k, for a std that is a positive number
ZScoreAbove(x, amts, k) ==
    LET n == Len(amts)
        S == SumSeq(amts)
    IN  WGreater(WScale(n - 1, WSq(n * x - S)), WScale(k * k, WSumSq(amts, n, S)))

(***************************************************************************)
(* FraudDetector.settings                                                  *)
(***************************************************************************)
DefaultSettings ==
    [ high_risk_threshold         |-> 70,
      medium_risk_threshold       |-> 40,
      unusual_amount_threshold    |-> 10000,
      micro_transaction_threshold |-> 1,
      off_hours_start             |-> TimeOfDay(22, 0),
      off_hours_end               |-> TimeOfDay(6, 0),
      max_transactions_per_hour   |-> 10,
      max_amount_per_day          |-> 50000 ]

\* the eight recognized option keys
SettingsKeys == DOMAIN DefaultSettings

\* dict.update: keys of p are set, all other keys keep their value
DictUpdate(s, p) ==
    [k \in (DOMAIN s) \cup (DOMAIN p) |-> IF k \in DOMAIN p THEN p[k] ELSE s[k]]

\* an amount (half-dollars) compared with a dollar threshold
HalfDollars(dollars) == 2 * dollars

(***************************************************************************)
(* Data-frame helpers.  A frame is a sequence of rows; a row is a record.  *)
(***************************************************************************)
Sep == ", "

Column(df, f) == [i \in 1..Len(df) |-> df[i][f]]

\* df[col] = v on one row (adds the column when it is missing)
SetCol(row, f, v) ==
    [k \in (DOMAIN row) \cup {f} |-> IF k = f THEN v ELSE row[k]]

\* df.drop(columns = [c for c in cols if c in df.columns]) on one row
DropCols(row, cols) == [k \in (DOMAIN row) \ cols |-> row[k]]

\* df.loc[mask, 'risk_score'] += c ; df.loc[mask, 'fraud_reasons'] += label + ', '
AddRiskUnlabelled(df, mask, c, label) ==
    [i \in 1..Len(df) |->
        IF i \in mask THEN [df[i] EXCEPT !.risk_score = @ + c] ELSE df[i]]
AddRisk(df, mask, c, label) ==
    [i \in 1..Len(df) |->
        IF i \in mask
        THEN [df[i] EXCEPT !.risk_score = @ + c,
                           !.fraud_reasons = @ \o <<label, Sep>>]
        ELSE df[i]]

\* str.rstrip(', ') : the labels themselves never end in ',' or ' '
RECURSIVE RStrip(_)
RStrip(r) ==
    IF r # <<>> /\ r[Len(r)] = Sep THEN RStrip(SubSeq(r, 1, Len(r) - 1)) ELSE r

\* Series.unique(): values in order of first appearance
RECURSIVE Unique(_)
Unique(s) ==
    IF s = <<>> THEN <<>>
    ELSE LET u == Unique(SubSeq(s, 1, Len(s) - 1))
             x == s[Len(s)]
         IN  IF \E i \in 1..Len(u) : u[i] = x THEN u ELSE Append(u, x)

\* df.sort_values('timestamp'): row positions in ascending timestamp order;
\* rows with equal timestamps keep their relative order of the input
\* (numpy sorts arrays this short by insertion).
SortedIndexDescending(df) ==
    LET n == Len(df)
        Before(j, i) == \/ df[j].timestamp > df[i].timestamp
                        \/ (df[j].timestamp = df[i].timestamp /\ j < i)
        Rank(i) == Cardinality({j \in 1..n : Before(j, i)}) + 1
    IN  [r \in 1..n |-> CHOOSE i \in 1..n : Rank(i) = r]
SortedIndex(df) ==
    LET n == Len(df)
        Before(j, i) == \/ df[j].timestamp < df[i].timestamp
                        \/ (df[j].timestamp = df[i].timestamp /\ j < i)
        Rank(i) == Cardinality({j \in 1..n : Before(j, i)}) + 1
    IN  [r \in 1..n |-> CHOOSE i \in 1..n : Rank(i) = r]

\* df_sorted[df_sorted['user_id'] == user_id] : the row positions
UserRowsAnyUser(df, u) == SortedIndex(df)
UserRows(df, u) == SelectSeq(SortedIndex(df), LAMBDA i : df[i].user_id = u)

(***************************************************************************)
(* FraudDetector._check_amount_anomalies                                   *)
(***************************************************************************)
\* np.abs((amount - mean) / std) > 3 ; NaN compares False, inf compares True
ExtremeNaNFires(x, amts) ==
    IF StdIsNaN(amts) THEN TRUE
    ELSE IF StdIsZero(amts) THEN TRUE
    ELSE ZScoreAbove(x, amts, 3)
ExtremeAmount(x, amts) ==
    IF StdIsNaN(amts) THEN FALSE
    ELSE IF StdIsZero(amts) THEN Len(amts) * x # SumSeq(amts)
    ELSE ZScoreAbove(x, amts, 3)

RoundAmount(a) == (a % HalfDollars(100) = 0) /\ (a > HalfDollars(100))

check_amount_anomalies_inclusive(df, s) ==
    LET n    == Len(df)
        amts == Column(df, "amount")
        d1 == AddRisk(df, {i \in 1..n : ExtremeAmount(amts[i], amts)},
                      30, "Extreme amount")
        d2 == AddRisk(d1, {i \in 1..n : amts[i] >= HalfDollars(s.unusual_amount_threshold)},
                      20, "Large amount")
        d3 == AddRisk(d2, {i \in 1..n : amts[i] <= HalfDollars(s.micro_transaction_threshold)},
                      10, "Micro transaction")
    IN  AddRisk(d3, {i \in 1..n : RoundAmount(amts[i])}, 5, "Round amount")
check_amount_anomalies(df, s) ==
    LET n    == Len(df)
        amts == Column(df, "amount")
        d1 == AddRisk(df, {i \in 1..n : ExtremeAmount(amts[i], amts)},
                      30, "Extreme amount")
        d2 == AddRisk(d1, {i \in 1..n : amts[i] > HalfDollars(s.unusual_amount_threshold)},
                      20, "Large amount")
        d3 == AddRisk(d2, {i \in 1..n : amts[i] < HalfDollars(s.micro_transaction_threshold)},
                      10, "Micro transaction")
    IN  AddRisk(d3, {i \in 1..n : RoundAmount(amts[i])}, 5, "Round amount")

(***************************************************************************)
(* FraudDetector._check_time_patterns                                      *)
(***************************************************************************)
OffHoursNoWrap(h, s) ==
    (h >= s.off_hours_start.hour) /\ (h <= s.off_hours_end.hour)
OffHours(h, s) ==
    LET start == s.off_hours_start.hour
        end   == s.off_hours_end.hour
    IN  IF start > end THEN (h >= start) \/ (h <= end)
        ELSE (h >= start) /\ (h <= end)

check_time_patterns(df, s) ==
    LET n  == Len(df)
        d0 == [i \in 1..n |->
                 SetCol(SetCol(df[i], "hour", Hour(df[i].timestamp)),
                        "day_of_week", DayOfWeek(df[i].timestamp))]
        d1 == AddRisk(d0, {i \in 1..n : OffHours(d0[i].hour, s)},
                      15, "Off-hours transaction")
    IN  AddRisk(d1, {i \in 1..n : d1[i].day_of_week \in {5, 6}},
                5, "Weekend transaction")

(***************************************************************************)
(* FraudDetector._check_velocity_patterns                                  *)
(***************************************************************************)
\* rows of one user whose time_diff to the previous row of the sorted
\* user frame is below `limit` seconds (the first row's diff is NaT)
DiffBelowEitherSide(df, us, limit) ==
    {us[k] : k \in {j \in 1..Len(us) :
        \/ (j > 1 /\ df[us[j]].timestamp - df[us[j - 1]].timestamp < limit)
        \/ (j < Len(us) /\ df[us[j + 1]].timestamp - df[us[j]].timestamp < limit)}}
DiffBelow(df, us, limit) ==
    {us[k] : k \in {j \in 2..Len(us) :
                      df[us[j]].timestamp - df[us[j - 1]].timestamp < limit}}

velocity_user(df, u, s) ==
    LET us  == UserRows(df, u)
        idx == {us[k] : k \in 1..Len(us)}
        amountOn(d)  == SumSeq(Column(
                          SelectSeq([k \in 1..Len(us) |-> df[us[k]]],
                                    LAMBDA r : Date(r.timestamp) = d), "amount"))
        countIn(h)   == Cardinality({i \in idx : FloorHour(df[i].timestamp) = h})
        hourly == {i \in idx : countIn(FloorHour(df[i].timestamp))
                                  > s.max_transactions_per_hour}
        daily  == {i \in idx : amountOn(Date(df[i].timestamp))
                                  > HalfDollars(s.max_amount_per_day)}
        d1 == AddRisk(df, DiffBelow(df, us, SecPerMinute),
                      25, "Rapid consecutive transactions")
        d2 == AddRisk(d1, hourly, 20, "High hourly velocity")
    IN  IF Len(us) > 1
        THEN AddRisk(d2, daily, 15, "High daily amount")
        ELSE df

RECURSIVE VelocityLoop(_, _, _)
\* for user_id in df['user_id'].unique(): ...
VelocityLoop(df, users, s) ==
    IF users = <<>> THEN df
    ELSE VelocityLoop(velocity_user(df, Head(users), s), Tail(users), s)

check_velocity_patterns(df, s) ==
    VelocityLoop(df, Unique(Column(df, "user_id")), s)

(***************************************************************************)
(* FraudDetector._check_location_patterns                                  *)
(***************************************************************************)
\* rows whose location differs from the previous row of the sorted user
\* frame (shift(1) of the first row is NaN, which differs from any text)
LocationChangedIgnored(df, us) == {us[k] : k \in 1..Len(us)}
LocationChanged(df, us) ==
    {us[k] : k \in {j \in 1..Len(us) :
                      j = 1 \/ df[us[j]].location # df[us[j - 1]].location}}

location_user(df, u, s) ==
    LET us == UserRows(df, u)
    IN  IF Len(us) > 1
        THEN AddRisk(df, LocationChanged(df, us) \cap DiffBelow(df, us, SecPerHour),
                     30, "Rapid location change")
        ELSE df

high_risk_keywords_nonempty ==
    << <<"u","n","k","n","o","w","n">>, <<"t","e","s","t">>,
       <<"t","e","m","p">>, <<"n","u","l","l">> >>
high_risk_keywords ==
    << <<"u","n","k","n","o","w","n">>, <<"t","e","s","t">>,
       <<"t","e","m","p">>, <<"n","u","l","l">>, <<>> >>

RECURSIVE ForEachKeyword(_, _, _, _, _)
\* for keyword in keywords: mask = df[col].str.lower().str.contains(keyword)
\*     df.loc[mask, 'risk_score'] += c ; df.loc[mask, 'fraud_reasons'] += label
\* (labels[k] is the label the loop body writes for keyword k)
ForEachKeyword(df, col, kws, c, labels) ==
    IF kws = <<>> THEN df
    ELSE ForEachKeyword(
             AddRisk(df, {i \in 1..Len(df) : Contains(Lower(df[i][col]), Head(kws))},
                     c, Head(labels)),
             col, Tail(kws), c, Tail(labels))

LocationLabels == [k \in 1..Len(high_risk_keywords) |-> "High-risk location"]

RECURSIVE LocationLoop(_, _, _)
\* for user_id in df['user_id'].unique(): ...
LocationLoop(df, users, s) ==
    IF users = <<>> THEN df
    ELSE LocationLoop(location_user(df, Head(users), s), Tail(users), s)

check_location_patterns(df, s) ==
    ForEachKeyword(LocationLoop(df, Unique(Column(df, "user_id")), s),
                   "location", high_risk_keywords, 10, LocationLabels)

(***************************************************************************)
(* FraudDetector._check_merchant_patterns                                  *)
(***************************************************************************)
high_risk_categories ==
    << <<"g","a","m","b","l","i","n","g">>, <<"a","d","u","l","t">>,
       <<"c","r","y","p","t","o","c","u","r","r","e","n","c","y">>,
       <<"c","a","s","h","_","a","d","v","a","n","c","e">> >>

suspicious_keywords ==
    << <<"t","e","s","t">>, <<"t","e","m","p">>,
       <<"f","a","k","e">>, <<"d","u","m","m","y">> >>

\* f'High-risk category ({category})'
CategoryLabels ==
    << "High-risk category (gambling)", "High-risk category (adult)",
       "High-risk category (cryptocurrency)", "High-risk category (cash_advance)" >>

MerchantLabels == [k \in 1..Len(suspicious_keywords) |-> "Suspicious merchant name"]

\* merchant_counts = df['merchant'].value_counts()
ValueCount(df, col, v) == Cardinality({i \in 1..Len(df) : df[i][col] = v})

check_merchant_patterns_single_flag(df, s) ==
    LET n  == Len(df)
        d1 == AddRisk(df, {i \in 1..n : ValueCount(df, "merchant", df[i].merchant) = 1},
                      10, "New/rare merchant")
        d2 == ForEachKeyword(d1, "merchant_category", high_risk_categories, 15, CategoryLabels)
    IN  AddRisk(d2, {i \in 1..n : \E k \in 1..Len(suspicious_keywords) :
                                    Contains(Lower(d2[i].merchant), suspicious_keywords[k])},
                20, "Suspicious merchant name")
check_merchant_patterns(df, s) ==
    LET d1 == AddRisk(df, {i \in 1..Len(df) : ValueCount(df, "merchant", df[i].merchant) = 1},
                      10, "New/rare merchant")
        d2 == ForEachKeyword(d1, "merchant_category", high_risk_categories, 15, CategoryLabels)
    IN  ForEachKeyword(d2, "merchant", suspicious_keywords, 20, MerchantLabels)

(***************************************************************************)
(* FraudDetector._calculate_final_score                                    *)
(***************************************************************************)
Min(a, b) == IF a < b THEN a ELSE b

FinalRowNoCap(row, s) ==
    DropCols([row EXCEPT !.is_fraud = (row.risk_score >= s.high_risk_threshold),
                         !.fraud_reasons = RStrip(@)],
             {"hour", "day_of_week"})
FinalRowStrict(row, s) ==
    DropCols([row EXCEPT !.risk_score = Min(@, 100),
                         !.is_fraud = (Min(row.risk_score, 100) > s.high_risk_threshold),
                         !.fraud_reasons = RStrip(@)],
             {"hour", "day_of_week"})
FinalRow(row, s) ==
    DropCols([row EXCEPT !.risk_score = Min(@, 100),
                         !.is_fraud = (Min(row.risk_score, 100) >= s.high_risk_threshold),
                         !.fraud_reasons = RStrip(@)],
             {"hour", "day_of_week"})

calculate_final_score(df, s) == [i \in 1..Len(df) |-> FinalRow(df[i], s)]

(***************************************************************************)
(* FraudDetector.detect_fraud                                              *)
(***************************************************************************)
\* df = transactions.copy(); df['risk_score'] = 0.0; df['is_fraud'] = False;
\* df['fraud_reasons'] = ''
InitColumnsKept(txs) ==
    [i \in 1..Len(txs) |->
        SetCol(SetCol(SetCol(txs[i], "risk_score",
                             IF passes > 0 /\ Len(result) = Len(txs)
                             THEN result[i].risk_score ELSE 0),
                      "is_fraud", FALSE), "fraud_reasons", <<>>)]
InitColumns(txs) ==
    [i \in 1..Len(txs) |->
        SetCol(SetCol(SetCol(txs[i], "risk_score", 0),
                      "is_fraud", FALSE), "fraud_reasons", <<>>)]

\* _check_amount_anomalies ... _check_merchant_patterns, in the order of the calls
apply_rules(txs, s) ==
    check_merchant_patterns(
      check_location_patterns(
        check_velocity_patterns(
          check_time_patterns(
            check_amount_anomalies(InitColumns(txs), s), s), s), s), s)

detect_fraud(txs, s) ==
    calculate_final_score(apply_rules(txs, s), s)

\* what a pass leaves in the objects it was handed.  A pass that wrote to
\* the caller's frame would leave the scored columns in it
detect_fraud_in_place(txs, s) ==
    [ transactions |-> calculate_final_score(apply_rules(txs, s), s),
      settings     |-> s ]
\* df = transactions.copy(): the rules write to the copy, and read
\* self.settings without assigning to it
detect_fraud_leaves(txs, s) ==
    [ transactions |-> txs, settings |-> s ]

(***************************************************************************)
(* TransactionAnalyzer: the five sub-analyses.  A sub-analysis is          *)
(* [risk_contribution, factors]; a factor is its text without the          *)
(* formatted number the code appends to some of them.                      *)
(***************************************************************************)
NoRisk == [risk_contribution |-> 0, factors |-> <<>>]

\* if cond: risk_contribution += c ; factors.append(label)
Fire(a, cond, c, label) ==
    IF cond
    THEN [risk_contribution |-> a.risk_contribution + c,
          factors |-> Append(a.factors, label)]
    ELSE a

\* historical_data[historical_data[col] == v]
Where(hist, col, v) == SelectSeq(hist, LAMBDA r : r[col] = v)

\* Series.max() of a non-empty integer column
MaxOf(col) == CHOOSE m \in {col[i] : i \in 1..Len(col)} :
                  \A i \in 1..Len(col) : col[i] <= m

\* the column in ascending order
SortedValues(col) ==
    LET n == Len(col)
        Before(j, i) == col[j] < col[i] \/ (col[j] = col[i] /\ j < i)
        Rank(i) == Cardinality({j \in 1..n : Before(j, i)}) + 1
    IN  [r \in 1..n |-> col[CHOOSE i \in 1..n : Rank(i) = r]]

\* amount > Series.quantile(pct / 100), linear interpolation between the
\* order statistics around position (n - 1) * pct / 100; the quantile of
\* an empty column is NaN, which compares False
AboveQuantile(x, col, pct) ==
    LET n   == Len(col)
        srt == SortedValues(col)
        lo  == ((n - 1) * pct) \div 100
        rem == ((n - 1) * pct) % 100
        hi  == IF rem = 0 THEN lo ELSE lo + 1
    IN  /\ n > 0
        /\ 100 * x > 100 * srt[lo + 1] + rem * (srt[hi + 1] - srt[lo + 1])

\* std > 0 and abs((x - mean) / std) > k
GuardedZAboveNoGuard(x, amts, k) ==
    \/ StdIsNaN(amts) \/ StdIsZero(amts) \/ ZScoreAbove(x, amts, k)
GuardedZAbove(x, amts, k) ==
    /\ ~StdIsNaN(amts)
    /\ ~StdIsZero(amts)
    /\ ZScoreAbove(x, amts, k)

(***************************************************************************)
(* TransactionAnalyzer._analyze_user_behavior                              *)
(***************************************************************************)
analyze_user_behavior_excluding_self(tx, hist) ==
    LET ut     == SelectSeq(hist, LAMBDA r : /\ r.user_id = tx.user_id
                                            /\ r.transaction_id # tx.transaction_id)
        amts   == Column(ut, "amount")
        last   == MaxOf(Column(ut, "timestamp"))
        recent == SelectSeq(ut, LAMBDA r : r.timestamp > tx.timestamp - SecPerDay)
        daily  == SumSeq(Column(recent, "amount")) + tx.amount
        dates  == {Date(ut[i].timestamp) : i \in 1..Len(ut)}
        a1 == Fire(NoRisk, GuardedZAbove(tx.amount, amts, 3),
                   25, "Amount highly unusual for user")
        a2 == Fire(a1, ~GuardedZAbove(tx.amount, amts, 3) /\ GuardedZAbove(tx.amount, amts, 2),
                   15, "Amount somewhat unusual for user")
        a3 == Fire(a2, tx.timestamp - last < 5 * SecPerMinute,
                   20, "Very recent transaction from same user")
    IN  IF Len(ut) = 0
        THEN Fire(NoRisk, TRUE, 30, "New user - no transaction history")
        ELSE Fire(a3, /\ Len(recent) > 0
                      /\ daily * Cardinality(dates) > 3 * SumSeq(amts),
                  20, "Daily spending significantly above average")
analyze_user_behavior(tx, hist) ==
    LET ut     == Where(hist, "user_id", tx.user_id)
        amts   == Column(ut, "amount")
        last   == MaxOf(Column(ut, "timestamp"))
        recent == SelectSeq(ut, LAMBDA r : r.timestamp > tx.timestamp - SecPerDay)
        daily  == SumSeq(Column(recent, "amount")) + tx.amount
        dates  == {Date(ut[i].timestamp) : i \in 1..Len(ut)}
        a1 == Fire(NoRisk, GuardedZAbove(tx.amount, amts, 3),
                   25, "Amount highly unusual for user")
        a2 == Fire(a1, ~GuardedZAbove(tx.amount, amts, 3) /\ GuardedZAbove(tx.amount, amts, 2),
                   15, "Amount somewhat unusual for user")
        a3 == Fire(a2, tx.timestamp - last < 5 * SecPerMinute,
                   20, "Very recent transaction from same user")
    IN  IF Len(ut) = 0
        THEN Fire(NoRisk, TRUE, 30, "New user - no transaction history")
        ELSE Fire(a3, /\ Len(recent) > 0
                      /\ daily * Cardinality(dates) > 3 * SumSeq(amts),
                  20, "Daily spending significantly above average")

(***************************************************************************)
(* TransactionAnalyzer._analyze_amount_patterns                            *)
(***************************************************************************)
analyze_amount_patterns(tx, hist) ==
    LET amount == tx.amount
        amts   == Column(hist, "amount")
        a1 == Fire(NoRisk, AboveQuantile(amount, amts, 99),
                   30, "Amount in top 1% of all transactions")
        a2 == Fire(a1, ~AboveQuantile(amount, amts, 99) /\ AboveQuantile(amount, amts, 95),
                   15, "Amount in top 5% of all transactions")
        a3 == Fire(a2, amount < HalfDollars(1), 15, "Micro transaction amount")
        r100 == amount >= HalfDollars(100) /\ amount % HalfDollars(100) = 0
        a4 == Fire(a3, r100, 10, "Round amount")
        a5 == Fire(a4, ~r100 /\ amount >= HalfDollars(10) /\ amount % HalfDollars(10) = 0,
                   5, "Round amount to nearest $10")
    IN  Fire(a5, GuardedZAbove(amount, amts, 3), 20, "Statistical outlier")

(***************************************************************************)
(* TransactionAnalyzer._analyze_temporal_patterns                          *)
(***************************************************************************)
analyze_temporal_patterns(tx, hist) ==
    LET t    == tx.timestamp
        hour == Hour(t)
        inHour == Cardinality({i \in 1..Len(hist) : Hour(hist[i].timestamp) = hour})
        a1 == Fire(NoRisk, hour >= 22 \/ hour <= 6, 15, "Off-hours transaction")
        a2 == Fire(a1, DayOfWeek(t) >= 5, 5, "Weekend transaction")
        a3 == Fire(a2, \/ (Month(t) = 1 /\ DayOfMonth(t) = 1)
                       \/ (Month(t) = 12 /\ DayOfMonth(t) = 25),
                   10, "Holiday transaction")
    IN  Fire(a3, 100 * inHour < Len(hist), 10, "Unusual hour for transactions")

(***************************************************************************)
(* TransactionAnalyzer._analyze_location_patterns                          *)
(***************************************************************************)
suspicious_location_keywords_nonempty ==
    << <<"t","e","s","t">>, <<"t","e","m","p">>, <<"f","a","k","e">>,
       <<"u","n","k","n","o","w","n">>, <<"n","u","l","l">> >>
suspicious_location_keywords ==
    << <<"t","e","s","t">>, <<"t","e","m","p">>, <<"f","a","k","e">>,
       <<"u","n","k","n","o","w","n">>, <<"n","u","l","l">>, <<>> >>

\* any(keyword.lower() in text.lower() for keyword in keywords)
AnyKeyword(text, kws) ==
    \E k \in 1..Len(kws) : Contains(Lower(text), Lower(kws[k]))

analyze_location_patterns_stacking(tx, hist) ==
    LET location == tx.location
        ut    == Where(hist, "user_id", tx.user_id)
        mine  == ValueCount(ut, "location", location)
        world == ValueCount(hist, "location", location)
        hit(k) == Contains(Lower(location), suspicious_location_keywords[k])
        a1 == Fire(NoRisk, Len(ut) > 0 /\ mine = 0, 20, "New location for this user")
        a2 == Fire(a1, Len(ut) > 0 /\ mine = 1, 10, "Rarely used location for this user")
        a3 == Fire(a2, world = 0, 15, "New location globally")
        a4 == Fire(a3, world > 0 /\ world < 5, 10, "Rarely used location globally")
        k1 == Fire(a4, hit(1), 25, "Suspicious location name")
        k2 == Fire(k1, hit(2), 25, "Suspicious location name")
        k3 == Fire(k2, hit(3), 25, "Suspicious location name")
        k4 == Fire(k3, hit(4), 25, "Suspicious location name")
        k5 == Fire(k4, hit(5), 25, "Suspicious location name")
    IN  Fire(k5, hit(6), 25, "Suspicious location name")
analyze_location_patterns(tx, hist) ==
    LET location == tx.location
        ut    == Where(hist, "user_id", tx.user_id)
        mine  == ValueCount(ut, "location", location)
        world == ValueCount(hist, "location", location)
        a1 == Fire(NoRisk, Len(ut) > 0 /\ mine = 0, 20, "New location for this user")
        a2 == Fire(a1, Len(ut) > 0 /\ mine = 1, 10, "Rarely used location for this user")
        a3 == Fire(a2, world = 0, 15, "New location globally")
        a4 == Fire(a3, world > 0 /\ world < 5, 10, "Rarely used location globally")
    IN  Fire(a4, AnyKeyword(location, suspicious_location_keywords),
             25, "Suspicious location name")

(***************************************************************************)
(* TransactionAnalyzer._analyze_merchant_patterns                          *)
(***************************************************************************)
single_high_risk_categories ==
    << <<"g","a","m","b","l","i","n","g">>, <<"a","d","u","l","t">>,
       <<"c","r","y","p","t","o","c","u","r","r","e","n","c","y">>,
       <<"c","a","s","h"," ","a","d","v","a","n","c","e">>,
       <<"m","o","n","e","y"," ","t","r","a","n","s","f","e","r">> >>

single_suspicious_keywords ==
    << <<"t","e","s","t">>, <<"t","e","m","p">>, <<"f","a","k","e">>,
       <<"u","n","k","n","o","w","n">>, <<"n","u","l","l">> >>

analyze_merchant_patterns_unguarded(tx, hist) ==
    LET ut    == Where(hist, "user_id", tx.user_id)
        world == ValueCount(hist, "merchant", tx.merchant)
        a1 == Fire(NoRisk, ValueCount(ut, "merchant", tx.merchant) = 0,
                   10, "New merchant for this user")
        a2 == Fire(a1, ValueCount(ut, "merchant_category", tx.merchant_category) = 0,
                   15, "New merchant category for this user")
        a3 == Fire(a2, world = 0, 15, "New merchant globally")
        a4 == Fire(a3, world > 0 /\ world < 5, 10, "Rarely used merchant")
        a5 == Fire(a4, AnyKeyword(tx.merchant_category, single_high_risk_categories),
                   20, "High-risk merchant category")
    IN  Fire(a5, AnyKeyword(tx.merchant, single_suspicious_keywords),
             25, "Suspicious merchant name")
analyze_merchant_patterns(tx, hist) ==
    LET ut    == Where(hist, "user_id", tx.user_id)
        world == ValueCount(hist, "merchant", tx.merchant)
        a1 == Fire(NoRisk, Len(ut) > 0 /\ ValueCount(ut, "merchant", tx.merchant) = 0,
                   10, "New merchant for this user")
        a2 == Fire(a1, /\ Len(ut) > 0
                       /\ ValueCount(ut, "merchant_category", tx.merchant_category) = 0,
                   15, "New merchant category for this user")
        a3 == Fire(a2, world = 0, 15, "New merchant globally")
        a4 == Fire(a3, world > 0 /\ world < 5, 10, "Rarely used merchant")
        a5 == Fire(a4, AnyKeyword(tx.merchant_category, single_high_risk_categories),
                   20, "High-risk merchant category")
    IN  Fire(a5, AnyKeyword(tx.merchant, single_suspicious_keywords),
             25, "Suspicious merchant name")

(***************************************************************************)
(* TransactionAnalyzer._get_risk_level, _get_recommendation                *)
(***************************************************************************)
get_risk_level_late_high(score) ==
    IF score >= 90 THEN "HIGH"
    ELSE IF score >= 40 THEN "MEDIUM"
    ELSE IF score >= 20 THEN "LOW"
    ELSE "VERY LOW"

get_risk_level_action_rungs(score) ==
    IF score >= 80 THEN "HIGH"
    ELSE IF score >= 60 THEN "MEDIUM"
    ELSE IF score >= 30 THEN "LOW"
    ELSE "VERY LOW"
get_risk_level(score) ==
    IF score >= 70 THEN "HIGH"
    ELSE IF score >= 40 THEN "MEDIUM"
    ELSE IF score >= 20 THEN "LOW"
    ELSE "VERY LOW"

get_recommendation_lax(score, factors) ==
    [ action     |-> IF score >= 60 THEN "REVIEW"
                     ELSE IF score >= 30 THEN "MONITOR" ELSE "APPROVE",
      confidence |-> IF score >= 60 THEN "MEDIUM"
                     ELSE IF score >= 30 THEN "LOW" ELSE "HIGH",
      risk_level |-> get_risk_level(score),
      primary_concerns |-> SubSeq(factors, 1, Min(3, Len(factors))) ]
get_recommendation_level_rungs(score, factors) ==
    [ action     |-> IF score >= 70 THEN "BLOCK"
                     ELSE IF score >= 40 THEN "REVIEW"
                     ELSE IF score >= 20 THEN "MONITOR" ELSE "APPROVE",
      confidence |-> IF score >= 70 THEN "HIGH"
                     ELSE IF score >= 40 THEN "MEDIUM"
                     ELSE IF score >= 20 THEN "LOW" ELSE "HIGH",
      risk_level |-> get_risk_level(score),
      primary_concerns |-> SubSeq(factors, 1, Min(3, Len(factors))) ]
get_recommendation(score, factors) ==
    [ action     |-> IF score >= 80 THEN "BLOCK"
                     ELSE IF score >= 60 THEN "REVIEW"
                     ELSE IF score >= 30 THEN "MONITOR" ELSE "APPROVE",
      confidence |-> IF score >= 80 THEN "HIGH"
                     ELSE IF score >= 60 THEN "MEDIUM"
                     ELSE IF score >= 30 THEN "LOW" ELSE "HIGH",
      risk_level |-> get_risk_level(score),
      primary_concerns |-> SubSeq(factors, 1, Min(3, Len(factors))) ]

(***************************************************************************)
(* TransactionAnalyzer.analyze_single_transaction                          *)
(***************************************************************************)
analyze_single_transaction_reversed(tx, hist) ==
    LET user     == analyze_user_behavior(tx, hist)
        amount   == analyze_amount_patterns(tx, hist)
        temporal == analyze_temporal_patterns(tx, hist)
        location == analyze_location_patterns(tx, hist)
        merchant == analyze_merchant_patterns(tx, hist)
        total    == user.risk_contribution + amount.risk_contribution
                      + temporal.risk_contribution + location.risk_contribution
                      + merchant.risk_contribution
        factors  == merchant.factors \o location.factors \o temporal.factors
                      \o amount.factors \o user.factors
        score    == Min(total, 100)
    IN  [ risk_score        |-> score,
          risk_factors      |-> factors,
          user_analysis     |-> user,
          amount_analysis   |-> amount,
          temporal_analysis |-> temporal,
          location_analysis |-> location,
          merchant_analysis |-> merchant,
          recommendation    |-> get_recommendation(score, factors) ]
analyze_single_transaction_uncapped(tx, hist) ==
    LET user     == analyze_user_behavior(tx, hist)
        amount   == analyze_amount_patterns(tx, hist)
        temporal == analyze_temporal_patterns(tx, hist)
        location == analyze_location_patterns(tx, hist)
        merchant == analyze_merchant_patterns(tx, hist)
        total    == user.risk_contribution + amount.risk_contribution
                      + temporal.risk_contribution + location.risk_contribution
                      + merchant.risk_contribution
        factors  == user.factors \o amount.factors \o temporal.factors
                      \o location.factors \o merchant.factors
    IN  [ risk_score        |-> total,
          risk_factors      |-> factors,
          user_analysis     |-> user,
          amount_analysis   |-> amount,
          temporal_analysis |-> temporal,
          location_analysis |-> location,
          merchant_analysis |-> merchant,
          recommendation    |-> get_recommendation(total, factors) ]
\* self.analysis_cache = {}
EmptyCache == [k \in {} |-> 0]

\* what an analysis leaves in the objects it was handed: the sub-analyses
\* select from transaction and historical_data into new objects, and no
\* method assigns to self.analysis_cache
analyze_single_transaction_leaves(tx, hist, cache) ==
    [ transaction |-> tx, historical_data |-> hist, analysis_cache |-> cache ]

analyze_single_transaction(tx, hist) ==
    LET user     == analyze_user_behavior(tx, hist)
        amount   == analyze_amount_patterns(tx, hist)
        temporal == analyze_temporal_patterns(tx, hist)
        location == analyze_location_patterns(tx, hist)
        merchant == analyze_merchant_patterns(tx, hist)
        total    == user.risk_contribution + amount.risk_contribution
                      + temporal.risk_contribution + location.risk_contribution
                      + merchant.risk_contribution
        factors  == user.factors \o amount.factors \o temporal.factors
                      \o location.factors \o merchant.factors
        score    == Min(total, 100)
    IN  [ risk_score        |-> score,
          risk_factors      |-> factors,
          user_analysis     |-> user,
          amount_analysis   |-> amount,
          temporal_analysis |-> temporal,
          location_analysis |-> location,
          merchant_analysis |-> merchant,
          recommendation    |-> get_recommendation(score, factors) ]

(***************************************************************************)
(* Inputs: the transactions the caller may hold.                           *)
(***************************************************************************)
NYC      == <<"N","Y","C">>
LA       == <<"L","A">>
Unknown  == <<"U","n","k","n","o","w","n">>
Shop     == <<"S","h","o","p">>
TestShop == <<"T","e","s","t"," ","S","h","o","p">>
TempTest == <<"T","e","m","p"," ","T","e","s","t">>
Retail   == <<"r","e","t","a","i","l">>
Gambling == <<"G","a","m","b","l","i","n","g">>
Visa     == <<"v","i","s","a">>

\* Saturday 2023-12-30 03:00:00
Sat0300 == 5 * SecPerDay + 3 * SecPerHour
\* Monday 2024-01-01 12:00:00
NewYearNoon == 7 * SecPerDay + 12 * SecPerHour
\* Tuesday 2023-12-26 08:00:00
Tue0800 == SecPerDay + 8 * SecPerHour

Tx(id, user, amt, merch, loc, ts, cat) ==
    [ transaction_id |-> id, user_id |-> user, amount |-> amt, merchant |-> merch,
      location |-> loc, timestamp |-> ts, card_type |-> Visa,
      merchant_category |-> cat ]

Pool ==
    { Tx(1, "U1", 100,   Shop,     NYC,     Sat0300,      Retail),
      Tx(2, "U1", 100,   Shop,     NYC,     Sat0300 + 30, Retail),
      Tx(3, "U1", 30000, TempTest, LA,      Sat0300,      Gambling),
      Tx(4, "U2", 1,     TestShop, Unknown, NewYearNoon,  Retail),
      Tx(5, "U2", 400,   Shop,     NYC,     NewYearNoon + 20 * SecPerMinute, Retail) }

\* the large collection: NFill ordinary transactions of one user, two hours apart
Filler(i) == Tx(100 + i, "U9", 100, Shop, NYC, Tue0800 + (i - 1) * 2 * SecPerHour, Retail)
Fillers == [i \in 1..NFill |-> Filler(i)]

\* sequences of distinct pool transactions, at most n long
RECURSIVE DistinctSeqs(_)
DistinctSeqs(n) ==
    IF n = 0 THEN { <<>> }
    ELSE LET shorter == DistinctSeqs(n - 1)
         IN  shorter \cup
             { Append(q, t) : q \in {r \in shorter : Len(r) = n - 1},
                              t \in Pool }
Distinct(q) == \A i, j \in 1..Len(q) : i # j => q[i].transaction_id # q[j].transaction_id

Collections ==
    {q \in DistinctSeqs(MaxTx) : Distinct(q)}
      \cup {Fillers \o q : q \in DistinctSeqs(1)}

\* merchant names and categories that hold several keywords, or one in
\* capitals
FakeTempTestDummy ==
    <<"F","a","k","e"," ","T","e","m","p"," ","T","e","s","t"," ",
      "D","u","m","m","y">>
TEST == <<"T","E","S","T">>
AdultGambling == <<"A","d","u","l","t"," ","G","a","m","b","l","i","n","g">>
CashAdvance == <<"C","a","s","h","_","A","d","v","a","n","c","e">>
NullTestUnknown ==
    <<"N","u","l","l"," ","T","e","s","t"," ","U","n","k","n","o","w","n">>

Stacked ==
    << Tx(307, "U6", 3, FakeTempTestDummy, NullTestUnknown,
          2 * SecPerDay + 12 * SecPerHour, AdultGambling),
       Tx(308, "U7", 3, TEST, LA,
          2 * SecPerDay + 14 * SecPerHour, CashAdvance) >>

\* transactions handed to analyze_single_transaction: the pool, and
\* transactions of a user without history at 03:00 on a Saturday
NewUserTx ==
    { Tx(7, "U3", amt, TestShop, Unknown, Sat0300, cat) :
        amt \in {1, 100, 200, 30000}, cat \in {Retail, Gambling} }
\* an ordinary transaction of the fillers' user, a day after the last of them
Benign == Tx(120, "U9", 106, Shop, NYC, 3 * SecPerDay + 10 * SecPerHour, Retail)

Targets == Pool \cup NewUserTx \cup {Stacked[1], Benign}

\* partial-settings values passed to update_settings
Updates ==
    { [high_risk_threshold |-> 150, max_transactions_per_hour |-> 1],
      [ high_risk_threshold         |-> 30,
        medium_risk_threshold       |-> 20,
        unusual_amount_threshold    |-> 200,
        micro_transaction_threshold |-> 50,
        off_hours_start             |-> TimeOfDay(9, 0),
        off_hours_end               |-> TimeOfDay(17, 30),
        max_transactions_per_hour   |-> 2,
        max_amount_per_day          |-> 100 ] }

\* a partial-settings value is malformed: a threshold outside [0, 1]
Malformed(p) ==
    \E k \in (DOMAIN p) \cap {"high_risk_threshold", "medium_risk_threshold"} :
        p[k] < 0 \/ p[k] > 100

(***************************************************************************)
(* Inputs: one user's transactions over the hours of a day, as uploaded    *)
(* and as DataProcessor.process_transactions hands them to the detector.   *)
(***************************************************************************)
\* DataProcessor._add_derived_features, the time-based features
Ingested(tx) ==
    [k \in (DOMAIN tx) \cup {"hour", "day_of_week", "month", "is_weekend"} |->
        CASE k = "hour"        -> Hour(tx.timestamp)
          [] k = "day_of_week" -> DayOfWeek(tx.timestamp)
          [] k = "month"       -> Month(tx.timestamp)
          [] k = "is_weekend"  -> (DayOfWeek(tx.timestamp) \in {5, 6})
          [] OTHER             -> tx[k]]

\* a transaction of user U4 at half past hour h of Wednesday 2023-12-27
HourTx(h) ==
    Tx(200 + h, "U4", 150, Shop, NYC,
       2 * SecPerDay + h * SecPerHour + 30 * SecPerMinute, Retail)

\* the hours named by the off-hours scenario
ScenarioHours == <<HourTx(23), HourTx(2), HourTx(12)>>

\* a transaction at `minute` past noon of that Wednesday
NoonTx(id, user, loc, minute) ==
    Tx(id, user, 150, Shop, loc,
       2 * SecPerDay + 12 * SecPerHour + minute * SecPerMinute, Retail)

\* two users in the same hour: U5 in LA between two NYC transactions of U4,
\* then U4 in LA
TwoTravellers ==
    << NoonTx(301, "U4", NYC, 30), NoonTx(302, "U5", LA, 40),
       NoonTx(303, "U4", NYC, 50), NoonTx(304, "U4", LA, 55) >>

\* one user in two places exactly one hour apart
HourApart == << NoonTx(305, "U4", NYC, 30), NoonTx(306, "U4", LA, 90) >>

DayCollections ==
    LET raw == { <<HourTx(h)>> : h \in 0..23 }
                   \cup {ScenarioHours, TwoTravellers, HourApart, Stacked}
    IN  raw \cup { [i \in 1..Len(q) |-> Ingested(q[i])] : q \in raw }

\* partial-settings values that move one end of the off-hours window
Windows ==
    { [off_hours_start |-> TimeOfDay(9, 0)],
      [off_hours_start |-> TimeOfDay(22, 0)],
      [off_hours_end   |-> TimeOfDay(17, 30)],
      [off_hours_end   |-> TimeOfDay(6, 0)] }

(***************************************************************************)
(* Initial state.                                                          *)
(***************************************************************************)
NoUpdate == <<DefaultSettings, [high_risk_threshold |-> 70]>>
NoReads  == [k \in {} |-> 0]

Init ==
    /\ settings = DefaultSettings
    /\ transactions \in Collections
    /\ result = <<>>
    /\ prevResult = <<>>
    /\ passes = 0
    /\ updatedSince = FALSE
    /\ lastUpdate = NoUpdate
    /\ pc = "idle"
    /\ frame = <<>>
    /\ seen = NoReads
    /\ held = {}
    /\ single = [done |-> FALSE]
    /\ advice = [called |-> FALSE]
    /\ analysis_cache = EmptyCache

(***************************************************************************)
(* FraudDetector.update_settings                                           *)
(***************************************************************************)
update_settings_reset(s, p) ==
    [k \in (DOMAIN s) \cup (DOMAIN p) |->
        IF k \in DOMAIN p THEN p[k] ELSE DefaultSettings[k]]
update_settings(s, p) == DictUpdate(s, p)

UpdateSettings(p) ==
    /\ pc = "idle"
    /\ settings' = update_settings(settings, p)
    /\ lastUpdate' = <<settings, p>>
    /\ updatedSince' = TRUE
    /\ UNCHANGED <<transactions, result, prevResult, passes, passVars, frame,
                   held, single, advice,
                   analysis_cache>>

(***************************************************************************)
(* FraudDetector.detect_fraud, as one call                                 *)
(***************************************************************************)
DetectFraud ==
    /\ pc = "idle"
    /\ frame' = apply_rules(transactions, settings)
    /\ result' = calculate_final_score(frame', settings)
    /\ prevResult' = IF passes > 0 /\ ~updatedSince THEN result ELSE <<>>
    /\ passes' = IF passes > 0 /\ ~updatedSince THEN 2 ELSE 1
    /\ updatedSince' = FALSE
    /\ lastUpdate' = NoUpdate
    /\ transactions' = detect_fraud_leaves(transactions, settings).transactions
    /\ settings' = detect_fraud_leaves(transactions, settings).settings
    /\ UNCHANGED <<passVars, held, single, advice, analysis_cache>>

Next ==
    \/ \E p \in Updates : UpdateSettings(p)
    \/ DetectFraud

Spec == Init /\ [][Next]_vars

(***************************************************************************)
(* FraudDetector.detect_fraud, rule by rule, with update_settings running  *)
(* on another thread between the rules.                                    *)
(***************************************************************************)
\* the settings keys a step reads, with the values it finds
Reads(keys) == DictUpdate(seen, [k \in keys |-> settings[k]])

BeginPass ==
    /\ pc = "idle"
    /\ frame' = InitColumns(transactions)
    /\ pc' = "amount"
    /\ seen' = NoReads
    /\ held' = {settings}
    /\ UNCHANGED <<settings, transactions, result, prevResult, passes,
                   updatedSince, lastUpdate, single, advice,
                   analysis_cache>>

RuleStep(at, keys, newFrame, to) ==
    /\ pc = at
    /\ frame' = newFrame
    /\ seen' = Reads(keys)
    /\ pc' = to
    /\ UNCHANGED <<settings, transactions, result, prevResult, passes,
                   updatedSince, lastUpdate, held, single, advice,
                   analysis_cache>>

AmountStep ==
    RuleStep("amount", {"unusual_amount_threshold", "micro_transaction_threshold"},
             check_amount_anomalies(frame, settings), "time")

TimeStep ==
    RuleStep("time", {"off_hours_start", "off_hours_end"},
             check_time_patterns(frame, settings), "velocity")

\* the velocity limits are read inside the loop, for users with several rows
VelocityStep ==
    RuleStep("velocity",
             IF \E i, j \in 1..Len(frame) : i # j /\ frame[i].user_id = frame[j].user_id
             THEN {"max_transactions_per_hour", "max_amount_per_day"} ELSE {},
             check_velocity_patterns(frame, settings), "location")

LocationStep ==
    RuleStep("location", {}, check_location_patterns(frame, settings), "merchant")

MerchantStep ==
    RuleStep("merchant", {}, check_merchant_patterns(frame, settings), "final")

FinalStep ==
    /\ pc = "final"
    /\ result' = calculate_final_score(frame, settings)
    /\ seen' = Reads({"high_risk_threshold"})
    /\ pc' = "idle"
    /\ passes' = 1
    /\ updatedSince' = FALSE
    /\ lastUpdate' = NoUpdate
    /\ UNCHANGED <<settings, transactions, prevResult, frame, held, single, advice,
                   analysis_cache>>

\* update_settings called by another thread while the pass is in flight
ConcurrentUpdate(p) ==
    /\ pc # "idle"
    /\ settings' = update_settings(settings, p)
    /\ held' = held \cup {settings'}
    /\ UNCHANGED <<transactions, result, prevResult, passes, updatedSince,
                   lastUpdate, passVars, frame, single, advice,
                   analysis_cache>>

NextConc ==
    \/ \E p \in Updates : ConcurrentUpdate(p)
    \/ BeginPass
    \/ AmountStep
    \/ TimeStep
    \/ VelocityStep
    \/ LocationStep
    \/ MerchantStep
    \/ FinalStep

SpecConc == Init /\ [][NextConc]_vars

(***************************************************************************)
(* TransactionAnalyzer.analyze_single_transaction on the caller's          *)
(* collection as the historical population.                                *)
(***************************************************************************)
AnalyzeSingle(tx) ==
    /\ pc = "idle"
    /\ single' = [done |-> TRUE,
                  tx |-> analyze_single_transaction_leaves(
                             tx, transactions, analysis_cache).transaction,
                  out |-> analyze_single_transaction(tx, transactions)]
    /\ transactions' = analyze_single_transaction_leaves(
                           tx, transactions, analysis_cache).historical_data
    /\ analysis_cache' = analyze_single_transaction_leaves(
                             tx, transactions, analysis_cache).analysis_cache
    /\ advice' = [called |-> TRUE,
                  score |-> single'.out.risk_score,
                  factors |-> single'.out.risk_factors,
                  out |-> single'.out.recommendation]
    /\ UNCHANGED <<settings, result, prevResult, passes,
                   updatedSince, lastUpdate, passVars, frame, held>>

NextSingle == \E tx \in Targets : AnalyzeSingle(tx)

SpecSingle == Init /\ [][NextSingle]_vars

(***************************************************************************)
(* Batch scoring and single-transaction analysis on one collection.        *)
(***************************************************************************)
NextBoth ==
    \/ DetectFraud
    \/ \E tx \in Targets : AnalyzeSingle(tx)

SpecBoth == Init /\ [][NextBoth]_vars

(***************************************************************************)
(* The detector and the analyzer of one session: settings updates, batch   *)
(* passes and single-transaction analyses in any order.                    *)
(***************************************************************************)
InitSession ==
    /\ Init
    /\ Len(transactions) = 2

NextSession ==
    \/ \E p \in Updates : UpdateSettings(p)
    \/ DetectFraud
    \/ \E tx \in Pool : AnalyzeSingle(tx)

SpecSession == InitSession /\ [][NextSession]_vars

(***************************************************************************)
(* Batch scoring of a day of processed transactions under the off-hours    *)
(* windows of the settings page.                                           *)
(***************************************************************************)
InitDay ==
    /\ settings = DefaultSettings
    /\ transactions \in DayCollections
    /\ result = <<>>
    /\ prevResult = <<>>
    /\ passes = 0
    /\ updatedSince = FALSE
    /\ lastUpdate = NoUpdate
    /\ pc = "idle"
    /\ frame = <<>>
    /\ seen = NoReads
    /\ held = {}
    /\ single = [done |-> FALSE]
    /\ advice = [called |-> FALSE]
    /\ analysis_cache = EmptyCache

NextDay ==
    \/ \E p \in Windows : UpdateSettings(p)
    \/ DetectFraud

SpecDay == InitDay /\ [][NextDay]_vars

(***************************************************************************)
(* TransactionAnalyzer._get_recommendation on any score in [0,1] and any   *)
(* list of factors.                                                        *)
(***************************************************************************)
\* risk scores in hundredths
Scores == 0..100

FactorLists ==
    { <<>>,
      <<"Round amount", "Weekend transaction">>,
      <<"New user - no transaction history", "Micro transaction amount",
        "Off-hours transaction", "Suspicious location name">> }

InitLadder ==
    /\ settings = DefaultSettings
    /\ transactions \in { <<t>> : t \in Pool }
    /\ result = <<>>
    /\ prevResult = <<>>
    /\ passes = 0
    /\ updatedSince = FALSE
    /\ lastUpdate = NoUpdate
    /\ pc = "idle"
    /\ frame = <<>>
    /\ seen = NoReads
    /\ held = {}
    /\ single = [done |-> FALSE]
    /\ advice = [called |-> FALSE]
    /\ analysis_cache = EmptyCache

GetRecommendation(score, factors) ==
    /\ advice' = [called |-> TRUE, score |-> score, factors |-> factors,
                  out |-> get_recommendation(score, factors)]
    /\ UNCHANGED <<settings, transactions, result, prevResult, passes,
                   updatedSince, lastUpdate, passVars, frame, held, single,
                   analysis_cache>>

NextLadder == \E score \in Scores, factors \in FactorLists :
                  GetRecommendation(score, factors)

SpecLadder == InitLadder /\ [][NextLadder]_vars

(***************************************************************************)
(* Properties.                                                             *)
(***************************************************************************)
\* the labels of a fraud_reasons value, without the separators
Labels(r) == SelectSeq(r, LAMBDA tok : tok # Sep)

HasLabel(r, label) == \E k \in 1..Len(r) : r[k] = label

\* the contribution each batch rule adds together with its label
Contribution(label) ==
    CASE label = "Extreme amount"                 -> 30
      [] label = "Large amount"                   -> 20
      [] label = "Micro transaction"              -> 10
      [] label = "Round amount"                   -> 5
      [] label = "Off-hours transaction"          -> 15
      [] label = "Weekend transaction"            -> 5
      [] label = "Rapid consecutive transactions" -> 25
      [] label = "High hourly velocity"           -> 20
      [] label = "High daily amount"              -> 15
      [] label = "Rapid location change"          -> 30
      [] label = "High-risk location"             -> 10
      [] label = "New/rare merchant"              -> 10
      [] label = "Suspicious merchant name"       -> 20
      [] OTHER                                    -> 15

RECURSIVE SumContributions(_)
SumContributions(labels) ==
    IF labels = <<>> THEN 0
    ELSE Contribution(Head(labels)) + SumContributions(Tail(labels))

\* a pass has returned and the settings are still those it ran with
PassDone == passes > 0 /\ ~updatedSince

\* the row of a result that carries a transaction id
RowOf(rows, id) ==
    CHOOSE row \in {rows[n] : n \in 1..Len(rows)} : row.transaction_id = id

\* C1: batch mode, every record returned by detect_fraud has a risk_score
\* between 0 and 1, however many rules fired and keyword matches stacked.
C1_ScoreInRange ==
    \A i \in 1..Len(result) :
        result[i].risk_score >= 0 /\ result[i].risk_score <= 100

\* C1 witness: a returned record whose contributions add up to more than 1
C1_Witness ==
    /\ PassDone
    /\ \E i \in 1..Len(result) :
          /\ frame[i].risk_score > 100
          /\ result[i].risk_score = 100

\* C2: batch mode, is_fraud holds exactly for the records whose risk_score
\* is at least the high_risk_threshold of the settings the pass ran with.
C2_FraudFlagIffThreshold ==
    PassDone =>
        \A i \in 1..Len(result) :
            result[i].is_fraud <=>
                (result[i].risk_score >= settings.high_risk_threshold)

\* C2 witness: a pass after an update of the threshold, with a record on
\* the threshold, a record above it and a record below it
C2_Witness ==
    /\ PassDone
    /\ settings.high_risk_threshold # DefaultSettings.high_risk_threshold
    /\ \E i, j, k \in 1..Len(result) :
          /\ result[i].risk_score = settings.high_risk_threshold
          /\ result[i].is_fraud
          /\ result[j].risk_score > settings.high_risk_threshold
          /\ result[k].risk_score < settings.high_risk_threshold
          /\ ~result[k].is_fraud

Swap(q, i, j) ==
    [k \in 1..Len(q) |-> IF k = i THEN q[j] ELSE IF k = j THEN q[i] ELSE q[k]]

\* C4: permutation invariance, a reordering of the collection gives every
\* transaction (by its id) the same risk_score, also when two transactions
\* of one user carry the same timestamp and different locations.
C4_PermutationInvariant ==
    PassDone =>
        \A a, b \in 1..Len(transactions) :
            \A m \in 1..Len(result) :
                RowOf(detect_fraud(Swap(transactions, a, b), settings),
                      result[m].transaction_id).risk_score
                    = result[m].risk_score

\* Scenario A: rows e and l are the only two transactions of their user,
\* with the same amount, l thirty seconds after e
ScenarioA(q, e, l) ==
    /\ e # l
    /\ q[e].user_id = q[l].user_id
    /\ \A k \in 1..Len(q) : q[k].user_id = q[e].user_id => k \in {e, l}
    /\ q[e].amount = q[l].amount
    /\ q[l].timestamp - q[e].timestamp = 30

\* C5 as stated: in Scenario A both transactions get the label
\* 'Rapid consecutive transactions' and its +0.25.
C5_BothRapid ==
    PassDone =>
        \A e, l \in 1..Len(transactions) :
            ScenarioA(transactions, e, l) =>
                /\ HasLabel(result[e].fraud_reasons, "Rapid consecutive transactions")
                /\ HasLabel(result[l].fraud_reasons, "Rapid consecutive transactions")

\* C5 amended: in Scenario A the later of the two transactions gets the
\* label 'Rapid consecutive transactions' once and its +0.25, and the
\* earlier one gets neither.
C5_LaterOnlyRapid ==
    PassDone =>
        \A e, l \in 1..Len(transactions) :
            ScenarioA(transactions, e, l) =>
                LET raw == frame
                    rapid(i) == Len(SelectSeq(result[i].fraud_reasons,
                                  LAMBDA tok : tok = "Rapid consecutive transactions"))
                IN  /\ rapid(l) = 1
                    /\ rapid(e) = 0
                    /\ raw[l].risk_score = SumContributions(Labels(raw[l].fraud_reasons))
                    /\ raw[e].risk_score = SumContributions(Labels(raw[e].fraud_reasons))

\* C5 witness: a pass over a collection holding Scenario A
C5_Witness ==
    /\ PassDone
    /\ \E e, l \in 1..Len(transactions) :
          /\ ScenarioA(transactions, e, l)
          /\ HasLabel(result[l].fraud_reasons, "Rapid consecutive transactions")

\* every amount of the population is the same
ZeroVariance(q) == Len(q) > 0 /\ \A i \in 1..Len(q) : q[i].amount = q[1].amount

ZScoreFactors ==
    { "Amount highly unusual for user", "Amount somewhat unusual for user",
      "Statistical outlier" }

\* C6: zero-variance guard, over a population of identical amounts no
\* z-score rule fires: the batch pass adds no 'Extreme amount', the
\* single-transaction analysis adds no user or global z-score factor, the
\* other rules are still evaluated and the risk_score is a number in [0,1].
C6_ZeroVarianceGuard ==
    ZeroVariance(transactions) =>
        /\ passes > 0 =>
              \A i \in 1..Len(result) :
                  LET raw == frame[i]
                  IN  /\ ~HasLabel(result[i].fraud_reasons, "Extreme amount")
                      /\ HasLabel(result[i].fraud_reasons, "High-risk location")
                      /\ raw.risk_score = SumContributions(Labels(raw.fraud_reasons))
                      /\ result[i].risk_score \in 10..100
        /\ single.done =>
              /\ \A k \in 1..Len(single.out.risk_factors) :
                     single.out.risk_factors[k] \notin ZScoreFactors
              /\ HasLabel(single.out.risk_factors, "Suspicious location name")
              /\ single.out.risk_score \in 25..100

\* C6 witness: both modes have run over a population of several identical
\* amounts, the analysed transaction having a different amount
C6_Witness ==
    /\ ZeroVariance(transactions)
    /\ Len(transactions) > 1
    /\ passes > 0
    /\ single.done
    /\ single.tx.amount # transactions[1].amount
    /\ single.tx.user_id = transactions[1].user_id

\* C7: a malformed settings update is rejected atomically, after the call
\* every field of the settings has the value it had before the call.
C7_MalformedRejected ==
    (updatedSince /\ Malformed(lastUpdate[2])) => settings = lastUpdate[1]

\* C8: no settings update is observed mid-pass, all the values a pass
\* reads belong to one settings value the detector held during the pass.
C8_SingleSnapshot ==
    held # {} =>
        \E s \in held : \A k \in DOMAIN seen : seen[k] = s[k]

\* C9: update_settings merges, the keys named in the argument take its
\* values, every other key keeps its value, and the eight recognized keys
\* are present after any sequence of updates.
C9_UpdateMerges ==
    /\ SettingsKeys \subseteq DOMAIN settings
    /\ updatedSince =>
          LET before == lastUpdate[1]
              p      == lastUpdate[2]
          IN  /\ DOMAIN settings = (DOMAIN before) \cup (DOMAIN p)
              /\ \A k \in DOMAIN p : settings[k] = p[k]
              /\ \A k \in (DOMAIN before) \ (DOMAIN p) : settings[k] = before[k]

\* C9 witness: a partial update after a full one, the keys it does not name
\* keeping the values of the full update
C9_Witness ==
    /\ updatedSince
    /\ DOMAIN lastUpdate[2] # SettingsKeys
    /\ settings.high_risk_threshold = 150
    /\ settings.unusual_amount_threshold = 200
    /\ settings.off_hours_start = TimeOfDay(9, 0)

\* Scenario C: a transaction of a user without history, location
\* 'Unknown', merchant 'Test Shop', at 03:00 on a Saturday
ScenarioC(tx, hist) ==
    /\ Len(Where(hist, "user_id", tx.user_id)) = 0
    /\ tx.location = Unknown
    /\ tx.merchant = TestShop
    /\ Hour(tx.timestamp) = 3
    /\ DayOfWeek(tx.timestamp) = 5

\* C10: Scenario C in single-transaction mode, for every amount and every
\* population the risk_score is at least 0.8 and the action is BLOCK.
C10_ScenarioCBlocks ==
    (single.done /\ ScenarioC(single.tx, transactions)) =>
        /\ single.out.risk_score >= 80
        /\ single.out.recommendation.action = "BLOCK"

\* C10 witness: Scenario C analysed against a population that already
\* holds the location and the merchant
C10_Witness ==
    /\ single.done
    /\ ScenarioC(single.tx, transactions)
    /\ ValueCount(transactions, "location", Unknown) > 0
    /\ ValueCount(transactions, "merchant", TestShop) > 0
    /\ single.out.recommendation.action = "BLOCK"

\* the factors of the five sub-analyses of a result, in the order of the calls
SubAnalysisFactors(out) ==
    out.user_analysis.factors \o out.amount_analysis.factors
        \o out.temporal_analysis.factors \o out.location_analysis.factors
        \o out.merchant_analysis.factors

\* C11: Scenario D, single-transaction mode: risk_factors is the factors of
\* the user, amount, temporal, location and merchant sub-analyses joined in
\* that order, and primary_concerns is its first three entries in that order
\* (all of them when fewer than three fired).
C11_PrimaryConcernsInOrder ==
    single.done =>
        /\ single.out.risk_factors = SubAnalysisFactors(single.out)
        /\ single.out.recommendation.primary_concerns
              = SubSeq(single.out.risk_factors, 1,
                       Min(3, Len(single.out.risk_factors)))

\* C11 witness: more than three factors fired, the 0.15 off-hours factor is a
\* primary concern and the larger 0.25 location factor, which fired later,
\* is not
C11_Witness ==
    /\ single.done
    /\ Len(single.out.risk_factors) > 3
    /\ HasLabel(single.out.recommendation.primary_concerns, "Off-hours transaction")
    /\ HasLabel(single.out.risk_factors, "Suspicious location name")
    /\ ~HasLabel(single.out.recommendation.primary_concerns, "Suspicious location name")

\* hour h lies in the window from hour `start` to hour `end`, which wraps
\* past midnight when start > end
InWindow(h, start, end) ==
    IF start > end THEN (h >= start) \/ (h <= end)
    ELSE (start <= h) /\ (h <= end)

\* C12: batch mode, a transaction gets 'Off-hours transaction' and its +0.15
\* exactly when its hour lies in the wrap-aware window of the settings; with
\* the window 22 to 6, hours 23 and 2 are flagged and hour 12 is not.
C12_OffHoursWrap ==
    PassDone =>
        \A i \in 1..Len(result) :
            LET h     == Hour(transactions[i].timestamp)
                start == settings.off_hours_start.hour
                end   == settings.off_hours_end.hour
                off   == HasLabel(result[i].fraud_reasons, "Off-hours transaction")
            IN  /\ off <=> InWindow(h, start, end)
                /\ (start = 22 /\ end = 6 /\ h \in {23, 2}) => off
                /\ (start = 22 /\ end = 6 /\ h = 12) => ~off
                /\ Len(SelectSeq(result[i].fraud_reasons,
                                 LAMBDA tok : tok = "Off-hours transaction")) <= 1
                /\ frame[i].risk_score
                      = SumContributions(Labels(frame[i].fraud_reasons))

\* C12 witness: a pass with the window 22 to 6 over transactions at hours
\* 23, 2 and 12, the first two flagged and the third not
C12_Witness ==
    /\ PassDone
    /\ settings.off_hours_start.hour = 22
    /\ settings.off_hours_end.hour = 6
    /\ \E i, j, k \in 1..Len(result) :
          /\ Hour(transactions[i].timestamp) = 23
          /\ HasLabel(result[i].fraud_reasons, "Off-hours transaction")
          /\ Hour(transactions[j].timestamp) = 2
          /\ HasLabel(result[j].fraud_reasons, "Off-hours transaction")
          /\ Hour(transactions[k].timestamp) = 12
          /\ ~HasLabel(result[k].fraud_reasons, "Off-hours transaction")

\* C13: Scenario B, batch mode: 'Large amount' (+0.20) fires exactly when
\* amount > unusual_amount_threshold and 'Micro transaction' (+0.10) exactly
\* when amount < micro_transaction_threshold, both strict, on the settings
\* the pass ran with; 15000 against 10000 is large, 0.50 against 1.0 is micro.
C13_StrictAmountThresholds ==
    PassDone =>
        \A i \in 1..Len(result) :
            LET amount == transactions[i].amount
                large  == HasLabel(result[i].fraud_reasons, "Large amount")
                micro  == HasLabel(result[i].fraud_reasons, "Micro transaction")
            IN  /\ large <=> (amount > HalfDollars(settings.unusual_amount_threshold))
                /\ micro <=> (amount < HalfDollars(settings.micro_transaction_threshold))
                /\ (amount = HalfDollars(15000)
                      /\ settings.unusual_amount_threshold = 10000) => large
                /\ (2 * amount = HalfDollars(1)
                      /\ settings.micro_transaction_threshold = 1) => micro
                /\ frame[i].risk_score
                      = SumContributions(Labels(frame[i].fraud_reasons))

\* C13 witness: a pass with thresholds 10000 and 1.0 over a collection that
\* holds an amount of 15000, flagged large, and an amount of 0.50, flagged
\* micro
C13_Witness ==
    /\ PassDone
    /\ settings.unusual_amount_threshold = 10000
    /\ settings.micro_transaction_threshold = 1
    /\ \E i, j \in 1..Len(result) :
          /\ transactions[i].amount = HalfDollars(15000)
          /\ HasLabel(result[i].fraud_reasons, "Large amount")
          /\ ~HasLabel(result[i].fraud_reasons, "Micro transaction")
          /\ 2 * transactions[j].amount = HalfDollars(1)
          /\ HasLabel(result[j].fraud_reasons, "Micro transaction")
          /\ ~HasLabel(result[j].fraud_reasons, "Large amount")

\* the sum of the risk contributions of the five sub-analyses of a result
SumOfSubAnalyses(out) ==
    out.user_analysis.risk_contribution + out.amount_analysis.risk_contribution
        + out.temporal_analysis.risk_contribution
        + out.location_analysis.risk_contribution
        + out.merchant_analysis.risk_contribution

\* C14: single-transaction mode, risk_score is the smaller of 1 and the sum
\* of the contributions of the user, amount, temporal, location and merchant
\* sub-analyses, and so lies in [0,1].
C14_SingleScoreIsCappedSum ==
    single.done =>
        /\ single.out.risk_score = Min(100, SumOfSubAnalyses(single.out))
        /\ single.out.risk_score >= 0
        /\ single.out.risk_score <= 100

\* C14 witness: an analysis whose five contributions add up to more than 1
C14_Witness ==
    /\ single.done
    /\ SumOfSubAnalyses(single.out) > 100
    /\ single.out.risk_score = 100
    /\ single.out.user_analysis.risk_contribution > 0
    /\ single.out.merchant_analysis.risk_contribution > 0

\* C15: recommendation ladder, the action and confidence are BLOCK/HIGH for
\* a score of at least 0.8, REVIEW/MEDIUM from 0.6 up to 0.8, MONITOR/LOW
\* from 0.3 up to 0.6 and APPROVE/HIGH below 0.3.
C15_RecommendationLadder ==
    advice.called =>
        LET s == advice.score
            a == advice.out.action
            c == advice.out.confidence
        IN  /\ (s >= 80) => (a = "BLOCK" /\ c = "HIGH")
            /\ (s >= 60 /\ s < 80) => (a = "REVIEW" /\ c = "MEDIUM")
            /\ (s >= 30 /\ s < 60) => (a = "MONITOR" /\ c = "LOW")
            /\ (s < 30) => (a = "APPROVE" /\ c = "HIGH")

\* C15 witness: a score on the lowest value of the REVIEW rung
C15_Witness ==
    /\ advice.called
    /\ advice.score = 60
    /\ advice.out.action = "REVIEW"
    /\ advice.out.confidence = "MEDIUM"

\* C16: risk_level ladder, the risk_level of the recommendation is HIGH for
\* a score of at least 0.7, MEDIUM from 0.4 up to 0.7, LOW from 0.2 up to 0.4
\* and VERY LOW below 0.2, on the score the action is computed from.
C16_RiskLevelLadder ==
    advice.called =>
        LET s == advice.score
            l == advice.out.risk_level
        IN  /\ (s >= 70) => l = "HIGH"
            /\ (s >= 40 /\ s < 70) => l = "MEDIUM"
            /\ (s >= 20 /\ s < 40) => l = "LOW"
            /\ (s < 20) => l = "VERY LOW"

\* C16 witness: a score between the two ladders' top thresholds, HIGH by
\* risk_level while the action is still REVIEW
C16_Witness ==
    /\ advice.called
    /\ advice.score >= 70
    /\ advice.score < 80
    /\ advice.out.risk_level = "HIGH"
    /\ advice.out.action = "REVIEW"

\* the three columns detect_fraud adds
ScoreColumns == {"risk_score", "is_fraud", "fraud_reasons"}

\* C17: detect_fraud returns one record per input record, in the input
\* order, each carrying every field of its input record unchanged, plus
\* risk_score, is_fraud and fraud_reasons; also when the input records carry
\* the fields hour and day_of_week that ingestion produced.
C17_FieldsKept ==
    PassDone =>
        /\ Len(result) = Len(transactions)
        /\ \A i \in 1..Len(result) :
              /\ ScoreColumns \subseteq DOMAIN result[i]
              /\ \A k \in DOMAIN transactions[i] :
                     /\ k \in DOMAIN result[i]
                     /\ result[i][k] = transactions[i][k]

\* C18: batch mode, fraud_reasons of a returned record is empty exactly when
\* its risk_score is 0; every contribution comes with its label and every
\* label with its contribution.
C18_ReasonsEmptyIffZero ==
    PassDone =>
        \A i \in 1..Len(result) :
            /\ (result[i].fraud_reasons = <<>>) <=> (result[i].risk_score = 0)
            /\ Labels(result[i].fraud_reasons) = Labels(frame[i].fraud_reasons)
            /\ frame[i].risk_score
                  = SumContributions(Labels(frame[i].fraud_reasons))
            /\ \A k \in 1..Len(result[i].fraud_reasons) :
                   result[i].fraud_reasons[k] # Sep
                       => Contribution(result[i].fraud_reasons[k]) > 0

\* C18 witness: a pass that returned a record with a single label and the
\* score of that label, and a record with several labels
C18_Witness ==
    /\ PassDone
    /\ \E i, j \in 1..Len(result) :
          /\ Len(result[i].fraud_reasons) = 1
          /\ result[i].risk_score = Contribution(result[i].fraud_reasons[1])
          /\ Len(Labels(result[j].fraud_reasons)) >= 3
          /\ result[j].risk_score > 0
          /\ result[j].risk_score < 100

\* Scoring by user_id partitions: the amount and time rules run once over
\* the full collection, the velocity and rapid-location-change rules run on
\* each user's rows alone, the rows go back to their input positions, and
\* the keyword and merchant rules run once over the full collection.
PartitionedRules(txs, s) ==
    LET d0      == check_time_patterns(
                       check_amount_anomalies(InitColumns(txs), s), s)
        part(u) == SelectSeq(d0, LAMBDA r : r.user_id = u)
        scored(u) == LocationLoop(check_velocity_patterns(part(u), s), <<u>>, s)
        pos(i)  == Cardinality({j \in 1..i : txs[j].user_id = txs[i].user_id})
        merged  == [i \in 1..Len(txs) |-> scored(txs[i].user_id)[pos(i)]]
    IN  check_merchant_patterns(
            ForEachKeyword(merged, "location", high_risk_keywords,
                           10, LocationLabels), s)

\* the id, risk_score and fraud_reasons of every row
Scored(rows) ==
    [i \in 1..Len(rows) |->
        LET row == rows[i]
        IN  <<row.transaction_id, row.risk_score, row.fraud_reasons>>]

DailyAmount(txs, i) ==
    SumSeq(Column(SelectSeq(txs, LAMBDA r :
                      /\ r.user_id = txs[i].user_id
                      /\ Date(r.timestamp) = Date(txs[i].timestamp)),
                  "amount"))

\* C20: daily cap, a transaction gets 'High daily amount' exactly when the
\* amounts of its user on its calendar date add up to more than
\* max_amount_per_day, also for a user with a single transaction in the
\* collection.
C20_DailyCap ==
    PassDone =>
        \A i \in 1..Len(result) :
            HasLabel(result[i].fraud_reasons, "High daily amount")
                <=> (DailyAmount(transactions, i)
                        > HalfDollars(settings.max_amount_per_day))

\* row j comes before row i among the transactions of i's user in ascending
\* timestamp order (equal timestamps in input order)
EarlierOfUser(txs, j, i) ==
    /\ txs[j].user_id = txs[i].user_id
    /\ \/ txs[j].timestamp < txs[i].timestamp
       \/ (txs[j].timestamp = txs[i].timestamp /\ j < i)

\* the immediate predecessors of row i: the latest of the earlier rows of
\* its user (none for the user's earliest transaction)
Predecessors(txs, i) ==
    {j \in 1..Len(txs) :
        /\ EarlierOfUser(txs, j, i)
        /\ \A k \in 1..Len(txs) :
               EarlierOfUser(txs, k, i) => (k = j \/ EarlierOfUser(txs, k, j))}

\* how many times a label stands in a fraud_reasons value
Times(r, label) == Len(SelectSeq(r, LAMBDA tok : tok = label))

\* C21: a transaction gets 'Rapid consecutive transactions' (+0.25), once,
\* exactly when it has an immediate predecessor of the same user less than
\* one minute before it; a user's earliest transaction never gets it.
C21_RapidLaterOnly ==
    PassDone =>
        \A i \in 1..Len(result) :
            /\ Times(result[i].fraud_reasons, "Rapid consecutive transactions")
                  = IF \E j \in Predecessors(transactions, i) :
                          transactions[i].timestamp - transactions[j].timestamp
                              < SecPerMinute
                    THEN 1 ELSE 0
            /\ Predecessors(transactions, i) = {}
                  => ~HasLabel(result[i].fraud_reasons, "Rapid consecutive transactions")
            /\ frame[i].risk_score
                  = SumContributions(Labels(frame[i].fraud_reasons))

\* C21 witness: three transactions of one user, the earliest without the
\* label and the two after it, each within a minute of its predecessor,
\* with it
C21_Witness ==
    /\ PassDone
    /\ \E i, j, k \in 1..Len(result) :
          /\ Predecessors(transactions, i) = {}
          /\ Predecessors(transactions, j) = {i}
          /\ Predecessors(transactions, k) = {j}
          /\ ~HasLabel(result[i].fraud_reasons, "Rapid consecutive transactions")
          /\ HasLabel(result[j].fraud_reasons, "Rapid consecutive transactions")
          /\ HasLabel(result[k].fraud_reasons, "Rapid consecutive transactions")

\* row i has an immediate predecessor of its user in another location less
\* than one hour before it
MovedWithinHour(txs, i) ==
    \E j \in Predecessors(txs, i) :
        /\ txs[i].location # txs[j].location
        /\ txs[i].timestamp - txs[j].timestamp < SecPerHour

\* C22: a transaction gets 'Rapid location change' (+0.30), once, exactly
\* when its immediate predecessor of the same user is in another location
\* and less than one hour before it; a transaction of another user in
\* between never triggers it.
C22_RapidLocationChange ==
    PassDone =>
        \A i \in 1..Len(result) :
            /\ Times(result[i].fraud_reasons, "Rapid location change")
                  = IF MovedWithinHour(transactions, i) THEN 1 ELSE 0
            /\ frame[i].risk_score
                  = SumContributions(Labels(frame[i].fraud_reasons))

\* C22 witness: a transaction that follows another user's transaction in
\* another location within the hour and is not flagged, and a transaction
\* that follows its own user's transaction in another location and is
C22_Witness ==
    /\ PassDone
    /\ \E i, j, k \in 1..Len(result) :
          /\ transactions[j].user_id # transactions[i].user_id
          /\ transactions[j].location # transactions[i].location
          /\ transactions[i].timestamp > transactions[j].timestamp
          /\ transactions[i].timestamp - transactions[j].timestamp < SecPerHour
          /\ Predecessors(transactions, i) # {}
          /\ ~HasLabel(result[i].fraud_reasons, "Rapid location change")
          /\ Predecessors(transactions, k) = {i}
          /\ HasLabel(result[k].fraud_reasons, "Rapid location change")

\* how many of the keywords a text contains, case-insensitively
Matches(text, kws) ==
    Cardinality({k \in 1..Len(kws) : Contains(Lower(text), kws[k])})

\* C23: batch keyword rules stack per match, a merchant name holding k of
\* test, temp, fake, dummy gets 'Suspicious merchant name' and +0.20 k
\* times, and a merchant_category holding m of gambling, adult,
\* cryptocurrency, cash_advance gets +0.15 and one 'High-risk category'
\* label for each of the m, before the cap at 1.0.
C23_KeywordsStack ==
    PassDone =>
        \A i \in 1..Len(result) :
            /\ Times(result[i].fraud_reasons, "Suspicious merchant name")
                  = Matches(transactions[i].merchant, suspicious_keywords)
            /\ \A k \in 1..Len(high_risk_categories) :
                   Times(result[i].fraud_reasons, CategoryLabels[k])
                     = IF Contains(Lower(transactions[i].merchant_category),
                                   high_risk_categories[k])
                       THEN 1 ELSE 0
            /\ frame[i].risk_score
                  = SumContributions(Labels(frame[i].fraud_reasons))
            /\ frame[i].risk_score
                  >= 20 * Matches(transactions[i].merchant, suspicious_keywords)
                     + 15 * Matches(transactions[i].merchant_category,
                                    high_risk_categories)

\* C23 witness: a merchant name that holds all four keywords and a category
\* that holds two, next to a merchant in capitals that holds one
C23_Witness ==
    /\ PassDone
    /\ \E i, j \in 1..Len(result) :
          /\ Times(result[i].fraud_reasons, "Suspicious merchant name") = 4
          /\ HasLabel(result[i].fraud_reasons, "High-risk category (gambling)")
          /\ HasLabel(result[i].fraud_reasons, "High-risk category (adult)")
          /\ frame[i].risk_score > 100
          /\ Times(result[j].fraud_reasons, "Suspicious merchant name") = 1
          /\ HasLabel(result[j].fraud_reasons, "High-risk category (cash_advance)")

\* the contribution each factor of the single-mode location and merchant
\* sub-analyses comes with
FactorContribution(label) ==
    CASE label = "New location for this user"          -> 20
      [] label = "Rarely used location for this user"  -> 10
      [] label = "New location globally"               -> 15
      [] label = "Rarely used location globally"       -> 10
      [] label = "Suspicious location name"            -> 25
      [] label = "New merchant for this user"          -> 10
      [] label = "New merchant category for this user" -> 15
      [] label = "New merchant globally"               -> 15
      [] label = "Rarely used merchant"                -> 10
      [] label = "High-risk merchant category"         -> 20
      [] label = "Suspicious merchant name"            -> 25
      [] OTHER                                         -> 0

RECURSIVE SumFactors(_)
SumFactors(factors) ==
    IF factors = <<>> THEN 0
    ELSE FactorContribution(Head(factors)) + SumFactors(Tail(factors))

\* C24: single-transaction mode, however many keywords match, the location
\* sub-analysis adds 'Suspicious location name' and its +0.25 at most once,
\* and the merchant sub-analysis adds the high-risk category factor (+0.20)
\* and 'Suspicious merchant name' (+0.25) at most once each.
C24_SingleFlags ==
    single.done =>
        LET loc == single.out.location_analysis
            mer == single.out.merchant_analysis
            one(b) == IF b THEN 1 ELSE 0
        IN  /\ Times(loc.factors, "Suspicious location name")
                  = one(Matches(single.tx.location, suspicious_location_keywords) > 0)
            /\ Times(mer.factors, "High-risk merchant category")
                  = one(Matches(single.tx.merchant_category,
                                single_high_risk_categories) > 0)
            /\ Times(mer.factors, "Suspicious merchant name")
                  = one(Matches(single.tx.merchant, single_suspicious_keywords) > 0)
            /\ loc.risk_contribution = SumFactors(loc.factors)
            /\ mer.risk_contribution = SumFactors(mer.factors)

\* C24 witness: a location that holds four of the keywords, a category that
\* holds two and a merchant name that holds three, each flagged once
C24_Witness ==
    /\ single.done
    /\ Matches(single.tx.location, suspicious_location_keywords) = 4
    /\ Matches(single.tx.merchant_category, single_high_risk_categories) = 2
    /\ Matches(single.tx.merchant, single_suspicious_keywords) = 3
    /\ Times(single.out.risk_factors, "Suspicious location name") = 1
    /\ Times(single.out.risk_factors, "High-risk merchant category") = 1
    /\ Times(single.out.risk_factors, "Suspicious merchant name") = 1

\* the factors that compare a transaction with its user's own history
UserRelativeFactors ==
    { "New location for this user", "Rarely used location for this user",
      "New merchant for this user", "New merchant category for this user" }

\* C25: single-transaction mode with no transaction of the user in the
\* population, the user sub-analysis is exactly +0.30 with the single factor
\* 'New user', the user-relative location and merchant checks add nothing,
\* and the global new/rare location and merchant checks are still made.
C25_EmptyUserHistory ==
    (single.done /\ Len(Where(transactions, "user_id", single.tx.user_id)) = 0) =>
        LET out   == single.out
            locs  == ValueCount(transactions, "location", single.tx.location)
            mers  == ValueCount(transactions, "merchant", single.tx.merchant)
        IN  /\ out.user_analysis.risk_contribution = 30
            /\ out.user_analysis.factors = <<"New user - no transaction history">>
            /\ \A k \in 1..Len(out.risk_factors) :
                   out.risk_factors[k] \notin UserRelativeFactors
            /\ HasLabel(out.location_analysis.factors, "New location globally")
                  <=> (locs = 0)
            /\ HasLabel(out.location_analysis.factors, "Rarely used location globally")
                  <=> (locs > 0 /\ locs < 5)
            /\ HasLabel(out.merchant_analysis.factors, "New merchant globally")
                  <=> (mers = 0)
            /\ HasLabel(out.merchant_analysis.factors, "Rarely used merchant")
                  <=> (mers > 0 /\ mers < 5)
            /\ out.location_analysis.risk_contribution
                  = SumFactors(out.location_analysis.factors)
            /\ out.merchant_analysis.risk_contribution
                  = SumFactors(out.merchant_analysis.factors)

\* C25 witness: a user without history whose location and merchant other
\* users of the population have used
C25_Witness ==
    /\ single.done
    /\ Len(transactions) > 1
    /\ Len(Where(transactions, "user_id", single.tx.user_id)) = 0
    /\ single.out.user_analysis.risk_contribution = 30
    /\ HasLabel(single.out.risk_factors, "Rarely used location globally")
    /\ HasLabel(single.out.risk_factors, "Rarely used merchant")

\* the keywords of a list that are not the empty string
NonEmpty(kws) == SelectSeq(kws, LAMBDA k : k # <<>>)

\* C26: the batch location keywords include the empty string, which every
\* location holds, so every returned record has 'High-risk location' at
\* least once, a risk_score of at least 0.10 and non-empty fraud_reasons;
\* a location holding j of unknown, test, temp, null has the label j + 1
\* times.
C26_EmptyKeywordAlwaysFires ==
    PassDone =>
        \A i \in 1..Len(result) :
            /\ Times(result[i].fraud_reasons, "High-risk location")
                  = Matches(transactions[i].location, NonEmpty(high_risk_keywords)) + 1
            /\ result[i].risk_score >= 10
            /\ result[i].fraud_reasons # <<>>
            /\ frame[i].risk_score
                  >= 10 * Times(frame[i].fraud_reasons, "High-risk location")

\* C26 witness: a location that holds three of the keywords, labelled four
\* times, next to a location that holds none, labelled once
C26_Witness ==
    /\ PassDone
    /\ \E i, j \in 1..Len(result) :
          /\ Matches(transactions[i].location, NonEmpty(high_risk_keywords)) = 3
          /\ Times(result[i].fraud_reasons, "High-risk location") = 4
          /\ Matches(transactions[j].location, NonEmpty(high_risk_keywords)) = 0
          /\ Times(result[j].fraud_reasons, "High-risk location") = 1

\* C27: the single-mode location keywords include the empty string, so
\* 'Suspicious location name' (+0.25) fires for every transaction: every
\* result has a risk_score of at least 0.25, a non-empty risk_factors and a
\* risk_level other than VERY LOW.
C27_SingleEmptyKeywordAlwaysFires ==
    single.done =>
        /\ HasLabel(single.out.location_analysis.factors, "Suspicious location name")
        /\ single.out.location_analysis.risk_contribution >= 25
        /\ single.out.risk_score >= 25
        /\ single.out.risk_factors # <<>>
        /\ single.out.recommendation.risk_level # "VERY LOW"

\* C27 witness: an ordinary transaction in a location without any of the
\* other keywords, whose only factor is the location name and whose score
\* is 0.25
C27_Witness ==
    /\ single.done
    /\ Matches(single.tx.location, NonEmpty(suspicious_location_keywords)) = 0
    /\ single.out.risk_factors = <<"Suspicious location name">>
    /\ single.out.risk_score = 25
    /\ single.out.recommendation.risk_level = "LOW"

\* the population holds the analysed transaction itself
InPopulation(tx, hist) == \E i \in 1..Len(hist) : hist[i] = tx

\* C28: when the population handed to analyze_single_transaction holds the
\* analysed transaction, 'New user' never fires and 'Very recent transaction
\* from same user' (+0.20) always fires; the same factor fires whenever the
\* user has a transaction in the population later than the analysed one.
C28_PopulationIncludesTransaction ==
    single.done =>
        LET user == single.out.user_analysis
        IN  /\ InPopulation(single.tx, transactions) =>
                  /\ ~HasLabel(user.factors, "New user - no transaction history")
                  /\ Times(user.factors, "Very recent transaction from same user") = 1
                  /\ user.risk_contribution >= 20
            /\ (\E i \in 1..Len(transactions) :
                    /\ transactions[i].user_id = single.tx.user_id
                    /\ transactions[i].timestamp > single.tx.timestamp) =>
                  HasLabel(user.factors, "Very recent transaction from same user")

\* C28 witness: the analysed transaction is the only transaction of its user
\* in the population, and the factor fires on the gap to itself
C28_Witness ==
    /\ single.done
    /\ InPopulation(single.tx, transactions)
    /\ Where(transactions, "user_id", single.tx.user_id) = <<single.tx>>
    /\ Len(transactions) > 1
    /\ HasLabel(single.out.risk_factors, "Very recent transaction from same user")

\* C29: the action ladder and the risk_level ladder agree for every score,
\* BLOCK comes with HIGH, REVIEW with MEDIUM or HIGH, MONITOR with LOW or
\* MEDIUM and APPROVE with LOW or VERY LOW.
C29_LaddersConsistent ==
    advice.called =>
        LET a == advice.out.action
            l == advice.out.risk_level
        IN  /\ a \in {"BLOCK", "REVIEW", "MONITOR", "APPROVE"}
            /\ l \in {"HIGH", "MEDIUM", "LOW", "VERY LOW"}
            /\ (a = "BLOCK") => l = "HIGH"
            /\ (a = "REVIEW") => l \in {"MEDIUM", "HIGH"}
            /\ (a = "MONITOR") => l \in {"LOW", "MEDIUM"}
            /\ (a = "APPROVE") => l \in {"LOW", "VERY LOW"}

\* C29 witness: the lowest BLOCK score, where the action has just left
\* REVIEW and the risk_level has been HIGH since 0.7
C29_Witness ==
    /\ advice.called
    /\ advice.score = 80
    /\ advice.out.action = "BLOCK"
    /\ advice.out.risk_level = "HIGH"

====
